---- MODULE Spec2Model ----
(***************************************************************************)
(* Model of scripts/merger.py (class DocumentMerger and main): documents   *)
(* are scanned, converted, indexed for keywords and assembled into a       *)
(* master document whose table of contents is rebuilt from PDF outlines.   *)
(*                                                                         *)
(* Strings are sequences of one-character strings, so that the regular     *)
(* expressions and string methods of the code are computed character by    *)
(* character.                                                              *)
(***************************************************************************)
EXTENDS Integers, Sequences, FiniteSets, TLC

(***************************************************************************)
(* Python string primitives                                                *)
(***************************************************************************)

\* \d of the re module (ASCII digits are all the model's inputs use).
Digits == {"0", "1", "2", "3", "4", "5", "6", "7", "8", "9"}

\* \s of the re module; also what str.strip() and str.split() treat as blank.
Whitespace == {" ", "\t", "\n"}

\* str.lower() on the letters the model's inputs use.
UpperToLower ==
    ("A" :> "a") @@ ("B" :> "b") @@ ("C" :> "c") @@ ("D" :> "d") @@
    ("E" :> "e") @@ ("F" :> "f") @@ ("H" :> "h") @@ ("P" :> "p") @@
    ("R" :> "r") @@ ("T" :> "t")

LowerToUpper ==
    ("a" :> "A") @@ ("b" :> "B") @@ ("c" :> "C") @@ ("d" :> "D") @@
    ("e" :> "E") @@ ("f" :> "F") @@ ("h" :> "H") @@ ("p" :> "P") @@
    ("r" :> "R") @@ ("t" :> "T")

Letters == DOMAIN UpperToLower \cup DOMAIN LowerToUpper

lower_char(c) == IF c \in DOMAIN UpperToLower THEN UpperToLower[c] ELSE c

upper_char(c) == IF c \in DOMAIN LowerToUpper THEN LowerToUpper[c] ELSE c

\* s.lower()
lower(s) == [k \in 1..Len(s) |-> lower_char(s[k])]

\* s.replace(old, new) for single characters
replace(s, old, new) == [k \in 1..Len(s) |-> IF s[k] = old THEN new ELSE s[k]]

\* s[n:]
Drop(s, n) == SubSeq(s, n + 1, Len(s))

\* First position >= from whose character is not in class (Len(s)+1 if none):
\* where a greedy run class* that starts at from ends.
SkipClass(s, from, class) ==
    IF \A k \in from..Len(s) : s[k] \in class
    THEN IF from > Len(s) THEN from ELSE Len(s) + 1
    ELSE CHOOSE k \in from..Len(s) :
            s[k] \notin class /\ \A j \in from..(k - 1) : s[j] \in class

\* First position >= from whose character is in class (Len(s)+1 if none).
FindClass(s, from, class) ==
    IF \A k \in from..Len(s) : s[k] \notin class
    THEN IF from > Len(s) THEN from ELSE Len(s) + 1
    ELSE CHOOSE k \in from..Len(s) :
            s[k] \in class /\ \A j \in from..(k - 1) : s[j] \notin class

\* Last position whose character is not in class (0 if none).
LastNotIn(s, class) ==
    IF \A k \in 1..Len(s) : s[k] \in class
    THEN 0
    ELSE CHOOSE k \in 1..Len(s) :
            s[k] \notin class /\ \A j \in (k + 1)..Len(s) : s[j] \in class

\* s.strip()
strip(s) == SubSeq(s, SkipClass(s, 1, Whitespace), LastNotIn(s, Whitespace))

\* s.rstrip('.')
rstrip_dot(s) == SubSeq(s, 1, LastNotIn(s, {"."}))

\* s.count('.')
count_dot(s) == Cardinality({k \in 1..Len(s) : s[k] = "."})

\* s.split()[0] of a string holding a non-blank character: the first
\* whitespace-delimited word.
split_first(s) ==
    LET b == SkipClass(s, 1, Whitespace)
    IN  SubSeq(s, b, FindClass(s, b, Whitespace) - 1)

\* s.split(' ')[0]: everything before the first space character.
split_space_first(s) == SubSeq(s, 1, FindClass(s, 1, {" "}) - 1)

\* needle in hay
Contains(hay, needle) ==
    \E k \in 0..(Len(hay) - Len(needle)) :
        SubSeq(hay, k + 1, k + Len(needle)) = needle

\* Case-insensitive literal at the start of s (word given in lower case).
StartsWithCI(s, word) ==
    /\ Len(s) >= Len(word)
    /\ \A k \in 1..Len(word) : lower_char(s[k]) = word[k]

(***************************************************************************)
(* The regular expressions of get_pdf_bookmarks.  Each ...End operator     *)
(* gives the number of characters re.match consumes, or -1 for no match.   *)
(***************************************************************************)

ChapterWord == <<"c", "h", "a", "p", "t", "e", "r">>
ChWord == <<"c", "h">>

\* re.match(r'^(Chapter|CH)[-:\s]+\d+[:\.\s-]*', s, re.IGNORECASE)
ChapterReEnd(s) ==
    LET w  == IF StartsWithCI(s, ChapterWord) THEN Len(ChapterWord)
              ELSE IF StartsWithCI(s, ChWord) THEN Len(ChWord) ELSE -1
        p1 == SkipClass(s, w + 1, {"-", ":"} \cup Whitespace)
        p2 == SkipClass(s, p1, Digits)
        p3 == SkipClass(s, p2, {":", ".", "-"} \cup Whitespace)
    IN  IF w = -1 THEN -1
        ELSE IF p1 = w + 1 THEN -1
        ELSE IF p2 = p1 THEN -1
        ELSE p3 - 1

\* re.sub(r'^(Chapter|CH)[-:\s]+\d+[:\.\s-]*', '', s, flags=re.IGNORECASE).strip()
ChapterStrip(s) ==
    IF ChapterReEnd(s) = -1 THEN strip(s) ELSE strip(Drop(s, ChapterReEnd(s)))

\* re.match(r'^\d+\.?\s+', s)
BareReEnd(s) ==
    LET p1 == SkipClass(s, 1, Digits)
        p2 == IF p1 <= Len(s) /\ s[p1] = "." THEN p1 + 1 ELSE p1
        p3 == SkipClass(s, p2, Whitespace)
    IN  IF p1 = 1 THEN -1
        ELSE IF p3 = p2 THEN -1
        ELSE p3 - 1

\* re.sub(r'^\d+\.?\s*', '', s).strip()
BareStrip(s) ==
    LET p1 == SkipClass(s, 1, Digits)
        p2 == IF p1 <= Len(s) /\ s[p1] = "." THEN p1 + 1 ELSE p1
        p3 == SkipClass(s, p2, Whitespace)
    IN  IF p1 = 1 THEN strip(s) ELSE strip(Drop(s, p3 - 1))

\* Position after the leading \d+\.\d+ of s, or -1.
TwoPartEnd(s) ==
    LET p1 == SkipClass(s, 1, Digits)
        p2 == SkipClass(s, p1 + 1, Digits)
    IN  IF p1 = 1 THEN -1
        ELSE IF ~(p1 <= Len(s) /\ s[p1] = ".") THEN -1
        ELSE IF p2 = p1 + 1 THEN -1
        ELSE p2

\* Position after an optional (\.\d+) that starts at p, or -1 when the group
\* cannot match there.
GroupEnd(s, p) ==
    LET q == SkipClass(s, p + 1, Digits)
    IN  IF p <= Len(s) /\ s[p] = "." /\ q > p + 1 THEN q ELSE -1

\* \.?(\s|$) can match from position p.
TailMatches(s, p) ==
    LET Boundary(q) == q > Len(s) \/ s[q] \in Whitespace
    IN  Boundary(p) \/ (p <= Len(s) /\ s[p] = "." /\ Boundary(p + 1))

\* re.match(r'^\d+\.\d+(\.\d+)?\.?(\s|$)', s) is not None
SectionReMatches(s) ==
    LET p == TwoPartEnd(s)
    IN  /\ p # -1
        /\ \/ GroupEnd(s, p) # -1 /\ TailMatches(s, GroupEnd(s, p))
           \/ TailMatches(s, p)

\* re.sub(r'^\d+\.\d+(\.\d+)?\.?\s*', '', s).strip()
SectionStrip(s) ==
    LET p  == TwoPartEnd(s)
        g  == IF p = -1 THEN -1 ELSE GroupEnd(s, p)
        q  == IF g # -1 THEN g ELSE p
        q2 == IF q <= Len(s) /\ s[q] = "." THEN q + 1 ELSE q
        q3 == SkipClass(s, q2, Whitespace)
    IN  IF p = -1 THEN strip(s) ELSE strip(Drop(s, q3 - 1))


\* s.splitlines(), for the line break "\n"
RECURSIVE splitlines(_)
splitlines(s) ==
    IF s = <<>> THEN <<>>
    ELSE LET k == FindClass(s, 1, {"\n"})
         IN  <<SubSeq(s, 1, k - 1)>> \o splitlines(Drop(s, k))

\* re.split(r'[,\n]', s): the pieces between separators, empty ones included.
RECURSIVE re_split(_)
re_split(s) ==
    LET k == FindClass(s, 1, {",", "\n"})
    IN  IF k > Len(s) THEN <<s>>
        ELSE <<SubSeq(s, 1, k - 1)>> \o re_split(Drop(s, k))

\* str.title(): a letter is upper-cased when no letter precedes it and
\* lower-cased otherwise.
title_case(s) ==
    [k \in 1..Len(s) |->
        IF k > 1 /\ s[k - 1] \in Letters THEN lower_char(s[k]) ELSE upper_char(s[k])]

\* sorted(list(v)) of a set of integers
RECURSIVE sorted(_)
sorted(v) ==
    IF v = {} THEN <<>>
    ELSE LET m == CHOOSE x \in v : \A y \in v : x <= y
         IN  <<m>> \o sorted(v \ {m})

(***************************************************************************)
(* Optional values (None or a string)                                      *)
(***************************************************************************)

None == [some |-> FALSE, val |-> <<>>]
Some(v) == [some |-> TRUE, val |-> v]

\* Python truthiness of an optional string: None and '' are falsy.
Truthy(t) == t.some /\ t.val # <<>>

(***************************************************************************)
(* State                                                                   *)
(***************************************************************************)

VARIABLES
    input_dir,       \* the files of input/: a set of [stem, suffix, converts, artifact]
    keywords_file,   \* keywords.txt: [exists, content]
    chapters,        \* self.chapters: sequence of [name, format, original, haspdf]
    pc,              \* position in main()
    i,               \* index of the chapter the current loop is at
    keywords,        \* extract_keywords: the parsed keyword list
    keyword_map,     \* extract_keywords: keyword -> set of page numbers
    global_page,     \* extract_keywords: the running page counter
    assigned,        \* history: <<chapter, local page, current_page_num>> computed so far
    found_keywords,  \* what extract_keywords returned (None, or keyword -> sorted pages)
    index_pdf,       \* what generate_index_pdf returned (TRUE: a path, FALSE: None)
    latex_content,   \* create_master_latex: the \includepdf commands written so far
    norm             \* history: chapter -> what get_pdf_bookmarks did for it

vars == <<input_dir, keywords_file, chapters, pc, i, keywords, keyword_map,
          global_page, assigned, found_keywords, index_pdf, latex_content, norm>>

(***************************************************************************)
(* scan_documents                                                          *)
(***************************************************************************)

supported_formats ==
    {<<".", "p", "d", "f">>, <<".", "d", "o", "c", "x">>, <<".", "t", "e", "x">>,
     <<".", "m", "d">>, <<".", "d", "o", "c">>}

\* the characters of the model's file names, in code point order
FileNameChars ==
    <<".", "0", "1", "2", "3", "4", "5", "6", "7", "8", "9",
      "D", "F", "P", "_", "c", "d", "f", "o", "p", "t", "x">>

CharRank(c) == CHOOSE n \in 1..Len(FileNameChars) : FileNameChars[n] = c

\* a < b for file names, as sorted() compares the paths
RECURSIVE PathLess(_, _)
PathLess(a, b) ==
    IF b = <<>> THEN FALSE
    ELSE IF a = <<>> THEN TRUE
    ELSE IF Head(a) = Head(b) THEN PathLess(Tail(a), Tail(b))
    ELSE CharRank(Head(a)) < CharRank(Head(b))

\* sorted(files)
RECURSIVE sorted_files(_)
sorted_files(files) ==
    IF files = {} THEN <<>>
    ELSE LET f == CHOOSE x \in files :
                    \A y \in files \ {x} : PathLess(x.stem \o x.suffix, y.stem \o y.suffix)
         IN  <<f>> \o sorted_files(files \ {f})

\* file_path.stem.replace('_', ' ').title()
format_name(stem) == title_case(replace(stem, "_", " "))

new_chapter(f) ==
    [name |-> format_name(f.stem), format |-> lower(f.suffix), original |-> f,
     haspdf |-> FALSE]

scanned_chapters(files) ==
    LET all == sorted_files(files)
        keep == SelectSeq(all, LAMBDA f : lower(f.suffix) \in supported_formats)
    IN  [k \in 1..Len(keep) |-> new_chapter(keep[k])]


(***************************************************************************)
(* get_pdf_bookmarks                                                       *)
(*                                                                         *)
(* A PDF artifact is [readable, outline_ok, outline, pages]: whether       *)
(* PdfReader(path) succeeds, whether reading reader.outline succeeds, the  *)
(* outline (a sequence of entries, an entry being an item or a nested list *)
(* of entries) and the pages, each [text, extractable].  An item is        *)
(* [kind |-> "item", title, dest, resolves, kids |-> <<>>]: dest is what   *)
(* get_destination_page_number returns, unless resolves is FALSE and the   *)
(* call raises.  A nested list is [kind |-> "list", kids].                 *)
(***************************************************************************)

\* number of leading lines the fallback looks at: lines[:5]
FallbackLines == 5

\* f"{page_num},{level},{depth},{clean_title},label{len(bookmarks)}"
bookmark(page_num, level, depth, clean_title, n) ==
    [page |-> page_num, level |-> level, depth |-> depth, title |-> clean_title,
     label |-> <<"label", n>>]

\* title = item.title.replace(',', ' ').strip()
item_title(item) == strip(replace(item.title, ",", " "))

\* the branch "if match:" of the chapter pattern
is_chapter_title(title) == ChapterReEnd(title) # -1

\* the branch "elif re.match(r'^\d+\.?\s+', title)" with its inner
\* "if '.' not in first_part"
is_bare_number_title(title) ==
    /\ BareReEnd(title) # -1
    /\ count_dot(rstrip_dot(split_first(title))) = 0

\* number_part = title.split(' ')[0].rstrip('.')
number_part(title) == rstrip_dot(split_space_first(title))

\* dot_count = number_part.count('.')
dot_count(title) == count_dot(number_part(title))

\* the destination page as PyPDF2 counts it, from 0
page_num_zero_based(item) == item.dest

\* page_num = reader.get_destination_page_number(item) + 1
page_num(item) == item.dest + 1

\* the body of "if re.match(r'^\d+\.\d+(\.\d+)?\.?(\s|$)', title):"
section_bookmark(item, title, bookmarks) ==
    IF dot_count(title) = 1
    THEN bookmark(page_num(item), "section", 1, SectionStrip(title), Len(bookmarks))
    ELSE bookmark(page_num(item), "subsection", 2, SectionStrip(title), Len(bookmarks))

\* found_chapter_title after a matching outline entry whose stripped title is t
capture_chapter_title(found, t) == Some(t)

\* One pass of the body of "for item in outlines" for an item that is no list.
\* st is [bookmarks, found, raised]; raised says an exception is propagating.
visit_item(item, st) ==
    LET title == item_title(item)
    IN  IF is_chapter_title(title)
        THEN [st EXCEPT !.found = capture_chapter_title(st.found, ChapterStrip(title))]
        ELSE IF is_bare_number_title(title)
        THEN [st EXCEPT !.found = capture_chapter_title(st.found, BareStrip(title))]
        ELSE IF SectionReMatches(title)
        THEN IF item.resolves
             THEN [st EXCEPT !.bookmarks =
                        Append(st.bookmarks, section_bookmark(item, title, st.bookmarks))]
             ELSE [st EXCEPT !.raised = TRUE]
        ELSE st

RECURSIVE recurse_outlines(_, _)
recurse_outlines(outlines, st) ==
    IF outlines = <<>> \/ st.raised THEN st
    ELSE LET item == Head(outlines)
             st1  == IF item.kind = "list"
                     THEN recurse_outlines(item.kids, st)
                     ELSE visit_item(item, st)
         IN  recurse_outlines(Tail(outlines), st1)

\* every line of the page, not the first five
all_lines(lines) == lines

\* lines[:5]
first_lines(lines) ==
    SubSeq(lines, 1, IF Len(lines) < FallbackLines THEN Len(lines) ELSE FallbackLines)

\* "for line in lines[:5]: ... break": the title the first matching line
\* gives, None when no line matches.
RECURSIVE scan_lines(_)
scan_lines(lines) ==
    IF lines = <<>> THEN None
    ELSE LET line == strip(Head(lines))
         IN  IF ChapterReEnd(line) # -1
             THEN Some(IF ChapterStrip(line) = <<>> THEN line ELSE ChapterStrip(line))
             ELSE scan_lines(Tail(lines))

\* "if not found_chapter_title and len(reader.pages) > 0"
fallback_applies(found, pages) == ~Truthy(found) /\ Len(pages) > 0

\* The page-1 fallback: found_chapter_title after it.
fallback_title(found, pages) ==
    IF ~pages[1].extractable THEN found
    ELSE LET hit == scan_lines(first_lines(splitlines(pages[1].text)))
         IN  IF hit.some THEN hit ELSE found

\* What get_pdf_bookmarks hands back once the outline walk st has ended:
\* on an exception the except clause falls through to the return statement.
bookmarks_result(st, pdf) ==
    LET fb == ~st.raised /\ fallback_applies(st.found, pdf.pages)
    IN  [bookmarks |-> st.bookmarks,
         title     |-> IF fb THEN fallback_title(st.found, pdf.pages) ELSE st.found,
         walk      |-> st.found,
         fallback  |-> fb,
         raised    |-> st.raised]

\* get_pdf_bookmarks(pdf_path): the returned (bookmarks, found_chapter_title)
\* as fields bookmarks and title; walk, fallback and raised record the path
\* taken (found_chapter_title after the outline walk, whether the fallback
\* branch was entered, whether the outer except clause ran).
get_pdf_bookmarks(pdf) ==
    LET st0 == [bookmarks |-> <<>>, found |-> None, raised |-> FALSE]
    IN  IF ~pdf.readable \/ ~pdf.outline_ok
        THEN bookmarks_result([st0 EXCEPT !.raised = TRUE], pdf)
        ELSE bookmarks_result(recurse_outlines(pdf.outline, st0), pdf)


(***************************************************************************)
(* extract_keywords                                                        *)
(***************************************************************************)

\* keywords = [k.strip() for k in re.split(r'[,\n]', content) if k.strip()]
parse_keywords(content) ==
    LET parts == re_split(content)
        kept  == SelectSeq(parts, LAMBDA k : strip(k) # <<>>)
    IN  [n \in 1..Len(kept) |-> strip(kept[n])]

\* keyword_map = {k: set() for k in keywords}
empty_keyword_map(kws) == [k \in {kws[n] : n \in 1..Len(kws)} |-> {}]

\* current_page_num = global_page + i     (i is the 0-indexed local page)
current_page_num(base, local) == base + local

\* the test without the two lower() calls
keyword_on_page_case_sensitive(kw, page) == Contains(page.text, kw)

\* text = page.extract_text().lower();  kw.lower() in text
keyword_on_page(kw, page) == Contains(lower(page.text), lower(kw))

\* The pages of the "for i in range(num_pages)" loop whose body completes:
\* those before the first page whose extract_text() raises (1-indexed).
scanned_pages(pages) ==
    {n \in 1..Len(pages) : \A m \in 1..n : pages[m].extractable}

\* global_page after the try block of one chapter: "global_page += num_pages"
\* is the last statement of the block, so an exception skips it.
next_global_page(base, pdf) ==
    IF pdf.readable /\ scanned_pages(pdf.pages) = 1..Len(pdf.pages)
    THEN base + Len(pdf.pages)
    ELSE base

\* found_keywords = {k: sorted(list(v)) for k, v in keyword_map.items() if v}
filter_found(map) ==
    [k \in {x \in DOMAIN map : map[x] # {}} |-> sorted(map[k])]

(***************************************************************************)
(* create_master_latex                                                     *)
(***************************************************************************)

\* chapter_title = found_title if found_title else chapter['name']
chapter_title(found_title, chapter) ==
    IF Truthy(found_title) THEN found_title.val ELSE chapter.name

\* chapter_entry = f"1,chapter,0,{chapter_title},chap{i}"
chapter_entry(title, n) ==
    [page |-> 1, level |-> "chapter", depth |-> 0, title |-> title,
     label |-> <<"chap", n>>]

\* the chapter entry written after the bookmarks
addtotoc_chapter_last(entry, bookmarks) == bookmarks \o <<entry>>

\* full_addtotoc: the chapter entry, then the bookmarks
full_addtotoc(entry, bookmarks) == <<entry>> \o bookmarks

\* addtotoc={1,chapter,0,Index,idx}
index_entry ==
    [page |-> 1, level |-> "chapter", depth |-> 0,
     title |-> <<"I", "n", "d", "e", "x">>, label |-> <<"idx", 0>>]

\* one \includepdf command: the included file (a chapter number, or 0 for the
\* index) and its addtotoc list
includepdf(file, addtotoc) == [file |-> file, addtotoc |-> addtotoc]

(***************************************************************************)
(* main(): the steps                                                       *)
(***************************************************************************)

\* merger.scan_documents(), and the test "if not merger.chapters"
ScanDocuments ==
    /\ pc = "scan"
    /\ chapters' = scanned_chapters(input_dir)
    /\ i' = 1
    /\ pc' = IF chapters' = <<>> THEN "done" ELSE "convert"
    /\ UNCHANGED <<input_dir, keywords_file, keywords, keyword_map, global_page,
                   assigned, found_keywords, index_pdf, latex_content, norm>>

\* chapter['pdf'] is set only in the branch of the other formats, and only
\* when the conversion raised nothing.  (A conversion that raises nothing
\* and leaves no file behind, as xelatex run without check can, is an
\* attached artifact that cannot be opened: converts with readable FALSE.)
converted(chapter) ==
    IF chapter.format = <<".", "p", "d", "f">>
    THEN chapter
    ELSE IF chapter.original.converts
    THEN [chapter EXCEPT !.haspdf = TRUE]
    ELSE chapter

\* one pass of "for chapter in merger.chapters: merger.convert_to_pdf(chapter)"
ConvertToPdf ==
    /\ pc = "convert"
    /\ i <= Len(chapters)
    /\ chapters' = [chapters EXCEPT ![i] = converted(chapters[i])]
    /\ i' = i + 1
    /\ UNCHANGED <<input_dir, keywords_file, pc, keywords, keyword_map, global_page,
                   assigned, found_keywords, index_pdf, latex_content, norm>>

\* extract_keywords up to the loop over the chapters; returns None when
\* there is no keywords file or no keyword in it.
ExtractKeywordsBegin ==
    /\ pc = "convert"
    /\ i > Len(chapters)
    /\ i' = 1
    /\ IF keywords_file.exists /\ parse_keywords(keywords_file.content) # <<>>
       THEN /\ keywords' = parse_keywords(keywords_file.content)
            /\ keyword_map' = empty_keyword_map(keywords')
            /\ global_page' = 1
            /\ pc' = "index"
            /\ UNCHANGED found_keywords
       ELSE /\ found_keywords' = None
            /\ pc' = "generate_index"
            /\ UNCHANGED <<keywords, keyword_map, global_page>>
    /\ UNCHANGED <<input_dir, keywords_file, chapters, assigned, index_pdf,
                   latex_content, norm>>

\* one pass of "for chapter in tqdm(self.chapters)" in extract_keywords
IndexChapter ==
    /\ pc = "index"
    /\ i <= Len(chapters)
    /\ LET chapter == chapters[i]
           pdf     == chapter.original.artifact
           done    == IF chapter.haspdf /\ pdf.readable
                      THEN scanned_pages(pdf.pages) ELSE {}
       IN  /\ keyword_map' =
                [kw \in DOMAIN keyword_map |->
                    keyword_map[kw] \cup
                    {current_page_num(global_page, n - 1) :
                        n \in {m \in done : keyword_on_page(kw, pdf.pages[m])}}]
           /\ assigned' = assigned \cup
                {<<i, n - 1, current_page_num(global_page, n - 1)>> : n \in done}
           /\ global_page' = IF chapter.haspdf
                             THEN next_global_page(global_page, pdf)
                             ELSE global_page
    /\ i' = i + 1
    /\ UNCHANGED <<input_dir, keywords_file, chapters, pc, keywords, found_keywords,
                   index_pdf, latex_content, norm>>

\* the end of extract_keywords: the keywords that were not found are dropped
ExtractKeywordsEnd ==
    /\ pc = "index"
    /\ i > Len(chapters)
    /\ found_keywords' = Some(filter_found(keyword_map))
    /\ pc' = "generate_index"
    /\ UNCHANGED <<input_dir, keywords_file, chapters, i, keywords, keyword_map,
                   global_page, assigned, index_pdf, latex_content, norm>>

\* generate_index_pdf: None for no keyword map or an empty one; otherwise
\* the index is compiled by xelatex, and index.pdf exists afterwards or not.
GenerateIndexPdf ==
    /\ pc = "generate_index"
    /\ IF found_keywords.some /\ DOMAIN found_keywords.val # {}
       THEN \E compiled \in BOOLEAN : index_pdf' = compiled
       ELSE index_pdf' = FALSE
    /\ pc' = "master"
    /\ i' = 1
    /\ UNCHANGED <<input_dir, keywords_file, chapters, keywords, keyword_map,
                   global_page, assigned, found_keywords, latex_content, norm>>

\* one pass of "for i, chapter in enumerate(self.chapters, 1)" in
\* create_master_latex
MasterChapter ==
    /\ pc = "master"
    /\ i <= Len(chapters)
    /\ IF chapters[i].haspdf
       THEN LET got == get_pdf_bookmarks(chapters[i].original.artifact)
                entry == chapter_entry(chapter_title(got.title, chapters[i]), i)
            IN  /\ latex_content' =
                     Append(latex_content, includepdf(i, full_addtotoc(entry, got.bookmarks)))
                /\ norm' = (i :> got) @@ norm
       ELSE UNCHANGED <<latex_content, norm>>
    /\ i' = i + 1
    /\ UNCHANGED <<input_dir, keywords_file, chapters, pc, keywords, keyword_map,
                   global_page, assigned, found_keywords, index_pdf>>

\* the end of create_master_latex: "if index_pdf:" appends the index
MasterIndex ==
    /\ pc = "master"
    /\ i > Len(chapters)
    /\ latex_content' = IF index_pdf
                        THEN Append(latex_content, includepdf(0, <<index_entry>>))
                        ELSE latex_content
    /\ pc' = "done"
    /\ UNCHANGED <<input_dir, keywords_file, chapters, i, keywords, keyword_map,
                   global_page, assigned, found_keywords, index_pdf, norm>>

Next ==
    \/ ScanDocuments
    \/ ConvertToPdf
    \/ ExtractKeywordsBegin
    \/ IndexChapter
    \/ ExtractKeywordsEnd
    \/ GenerateIndexPdf
    \/ MasterChapter
    \/ MasterIndex


(***************************************************************************)
(* Inputs.  A run starts from the files of input/ and keywords.txt.  The   *)
(* inputs are drawn from three families, one per component, each a set of  *)
(* well-formed base inputs and the inputs that differ from a base input in *)
(* a few places (a file of another format, a conversion that fails, a      *)
(* PDF that cannot be opened, an outline that cannot be read, a            *)
(* destination that cannot be resolved, a page whose text cannot be        *)
(* extracted).                                                             *)
(***************************************************************************)

MaxDocs == 2       \* documents in input/
MaxPages == 2      \* pages of a document (keyword indexer inputs)
MaxOutline == 2    \* outline entries of a document (normalizer inputs)

Page(text) == [text |-> text, extractable |-> TRUE]

Item(title, dest) ==
    [kind |-> "item", title |-> title, dest |-> dest, resolves |-> TRUE, kids |-> <<>>]

List(kids) ==
    [kind |-> "list", title |-> <<>>, dest |-> 0, resolves |-> TRUE, kids |-> kids]

Pdf(outline, pages) ==
    [readable |-> TRUE, outline_ok |-> TRUE, outline |-> outline, pages |-> pages]

DigitChar == <<"1", "2", "3", "4", "5", "6", "7", "8", "9">>

Docx == <<".", "d", "o", "c", "x">>

\* the n-th file of input/: d_<n>.docx, converted without error
File(n, artifact) ==
    [stem |-> <<"d", "_", DigitChar[n]>>, suffix |-> Docx, converts |-> TRUE,
     artifact |-> artifact]

\* All sequences over S of length lo..hi
SeqsOf(S, lo, hi) == UNION {[1..n -> S] : n \in lo..hi}

\* ---- the places where an input may differ from its base input ----

Dev(n, kind, a, b) == [file |-> n, kind |-> kind, a |-> a, b |-> b]

DestPoints(n, outline) ==
    UNION {IF outline[a].kind = "item"
           THEN {Dev(n, "dest", a, 0)}
           ELSE {Dev(n, "dest", a, b) : b \in 1..Len(outline[a].kids)}
           : a \in 1..Len(outline)}

DevPoints(n, f, kinds) ==
    {d \in  {Dev(n, k, 0, 0) : k \in {"pdf", "txt", "convert", "read", "outline"}}
            \cup {Dev(n, "text", q, 0) : q \in 1..Len(f.artifact.pages)}
            \cup DestPoints(n, f.artifact.outline)
        : d.kind \in kinds}

AllDevPoints(base, kinds) == UNION {DevPoints(n, base[n], kinds) : n \in 1..Len(base)}

Unresolved(entry) == [entry EXCEPT !.resolves = FALSE]

Deviate(f, d) ==
    LET pdf == f.artifact
    IN  CASE d.kind = "pdf"     -> [f EXCEPT !.suffix = <<".", "P", "D", "F">>]
          [] d.kind = "txt"     -> [f EXCEPT !.suffix = <<".", "t", "x", "t">>]
          [] d.kind = "convert" -> [f EXCEPT !.converts = FALSE]
          [] d.kind = "read"    -> [f EXCEPT !.artifact = [pdf EXCEPT !.readable = FALSE]]
          [] d.kind = "outline" -> [f EXCEPT !.artifact = [pdf EXCEPT !.outline_ok = FALSE]]
          [] d.kind = "text"    ->
                [f EXCEPT !.artifact =
                    [pdf EXCEPT !.pages =
                        [pdf.pages EXCEPT ![d.a] = [text |-> pdf.pages[d.a].text,
                                                    extractable |-> FALSE]]]]
          [] d.kind = "dest"    ->
                LET e == pdf.outline[d.a]
                    e2 == IF d.b = 0 THEN Unresolved(e)
                          ELSE [e EXCEPT !.kids =
                                    [e.kids EXCEPT ![d.b] = Unresolved(e.kids[d.b])]]
                IN  [f EXCEPT !.artifact =
                        [pdf EXCEPT !.outline = [pdf.outline EXCEPT ![d.a] = e2]]]

RECURSIVE DeviateAll(_, _)
DeviateAll(f, D) ==
    IF D = {} THEN f
    ELSE LET d == CHOOSE x \in D : TRUE
         IN  DeviateAll(Deviate(f, d), D \ {d})

\* the set of files that differs from base in the places D
Files(base, D) ==
    {DeviateAll(base[n], {d \in D : d.file = n}) : n \in 1..Len(base)}

AtMostOne(P) == {{}} \cup {{x} : x \in P}
AtMostTwo(P) == AtMostOne(P) \cup {{x, y} : x \in P, y \in P}

NoKeywordsFile == [exists |-> FALSE, content |-> <<>>]
KeywordsFile(content) == [exists |-> TRUE, content |-> content]

\* what every run starts with, given its input
Start(files, kwfile) ==
    /\ input_dir = files
    /\ keywords_file = kwfile
    /\ chapters = <<>>
    /\ pc = "scan"
    /\ i = 1
    /\ keywords = <<>>
    /\ keyword_map = <<>>
    /\ global_page = 1
    /\ assigned = {}
    /\ found_keywords = None
    /\ index_pdf = FALSE
    /\ latex_content = <<>>
    /\ norm = <<>>

\* ---- keyword indexer inputs ----

IndexerTexts == {<<"x", "A", "b">>, <<"b", "a">>}

IndexerKeywordFiles ==
    {NoKeywordsFile,
     KeywordsFile(<<" ", ",", "\n">>),
     KeywordsFile(<<"a", "B", ",", "B">>),
     KeywordsFile(<<"c", "\n", " ", "a", "B", " ", ",", ",", "a", "B", "\n">>)}

IndexerBases ==
    {[n \in 1..Len(docs) |-> File(n, Pdf(<<>>, [q \in 1..Len(docs[n]) |-> Page(docs[n][q])]))]
        : docs \in SeqsOf(SeqsOf(IndexerTexts, 1, MaxPages), 1, MaxDocs)}

InitIndexer ==
    \E base \in IndexerBases :
      \E D \in AtMostOne(AllDevPoints(base, {"convert", "read", "text"})) :
        \E kwfile \in IndexerKeywordFiles :
            Start(Files(base, D), kwfile)

\* ---- outline normalizer inputs ----

NormalizerTitles ==
    {<<"C", "h", "a", "p", "t", "e", "r", " ", "3", ":", " ", "A">>,
     <<"C", "H", "-", "2", " ", "b">>,
     <<"4", ".", " ", "d">>,
     <<"2", ".", "3", " ", "a">>,
     <<"2", ".", "3", ".", "1", ",", "b">>,
     <<"2", ".", "3", "\t", ".", "a">>,
     <<"a", ".", "b">>,
     <<"c", "h", " ", "1">>,
     <<"1", ".", "2", ".", "3", ".", "4", " ", "a">>}

FirstPageTexts ==
    {<<"a">>,
     <<>>,
     <<"C", "H", " ", "1", ":", "d">>,
     <<"C", "H", " ", "1">>,
     <<"b", "\n", "C", "h", "a", "p", "t", "e", "r", " ", "2", " ", "e", "\n",
       "C", "H", " ", "3", " ", "d">>,
     <<"\n", "\n", "\n", "\n", "c", "h", "-", "4", " ", "e">>,
     <<"\n", "\n", "\n", "\n", "\n", "c", "h", "-", "4", " ", "e">>}

\* flat outlines, and the same entries with all but the first nested in a list
NormalizerOutlines ==
    LET flat == {[k \in 1..Len(ts) |-> Item(ts[k], 0)] : ts \in SeqsOf(NormalizerTitles, 0, MaxOutline)}
    IN  flat \cup {<<o[1], List(Tail(o))>> : o \in {x \in flat : Len(x) >= 2}}

InitNormalizer ==
    \E outline \in NormalizerOutlines :
      \E text \in FirstPageTexts :
        LET base == <<File(1, Pdf(outline, <<Page(text)>>))>>
        IN  \E D \in AtMostOne(AllDevPoints(base,
                        {"pdf", "txt", "convert", "read", "outline", "text", "dest"})) :
                Start(Files(base, D), KeywordsFile(<<"a">>))

\* ---- TOC assembler inputs ----

AssemblerArtifacts ==
    {Pdf(<<>>, <<Page(<<"a">>)>>),
     Pdf(<<Item(<<"1", ".", "1", " ", "a">>, 1), Item(<<"1", ".", "2", " ", "b">>, 0)>>,
         <<Page(<<"C", "H", " ", "1", ":", "d">>), Page(<<"a">>)>>),
     Pdf(<<Item(<<"C", "h", "a", "p", "t", "e", "r", " ", "3", ":", " ", "A">>, 0),
           List(<<Item(<<"2", ".", "3", ".", "1", ",", "b">>, 1)>>)>>,
         <<Page(<<"b">>), Page(<<"a">>)>>)}

AssemblerBases ==
    {[n \in 1..Len(arts) |-> File(n, arts[n])] : arts \in SeqsOf(AssemblerArtifacts, 1, MaxDocs)}

InitAssembler ==
    \E base \in AssemblerBases :
      \E D \in AtMostTwo(AllDevPoints(base,
                    {"pdf", "txt", "convert", "read", "outline", "text", "dest"})) :
        \E kwfile \in {NoKeywordsFile, KeywordsFile(<<"a">>)} :
            Start(Files(base, D), kwfile)

Init == InitIndexer \/ InitNormalizer \/ InitAssembler

Spec == Init /\ [][Next]_vars

SpecIndexer == InitIndexer /\ [][Next]_vars

SpecNormalizer == InitNormalizer /\ [][Next]_vars

SpecAssembler == InitAssembler /\ [][Next]_vars


(***************************************************************************)
(* Properties.  The definitions below state what the specification of the  *)
(* program says; they are computed from the inputs alone, not by the       *)
(* operators that model the code.                                          *)
(***************************************************************************)

\* the page-bearing artifact of chapter n
ArtifactOf(n) == chapters[n].original.artifact

\* chapter n is a Document the indexer can read from end to end
Readable(n) ==
    /\ chapters[n].haspdf
    /\ ArtifactOf(n).readable
    /\ \A q \in 1..Len(ArtifactOf(n).pages) : ArtifactOf(n).pages[q].extractable

\* the page count of chapter n, as far as it is knowable: a Document without
\* an artifact, or one that cannot be opened, contributes no pages
KnownPages(n) ==
    IF chapters[n].haspdf /\ ArtifactOf(n).readable THEN Len(ArtifactOf(n).pages) ELSE 0

\* 1 + the page counts of the chapters before chapter n
RECURSIVE GlobalBase(_)
GlobalBase(n) == IF n <= 1 THEN 1 ELSE GlobalBase(n - 1) + KnownPages(n - 1)

\* ---------------------------------------------------------------------
\* C1: in every run of extract_keywords, failing reads and failing page
\* extractions included, the global page numbers handed out are contiguous
\* and non-overlapping in merge order: local page q (0-indexed) of chapter n
\* gets GlobalBase(n) + q, the base of a chapter being 1 plus the page counts
\* of the chapters processed before it, and no number is given to pages of
\* two chapters.
C1_GlobalPagesContiguous ==
    /\ \A x \in assigned : x[3] = GlobalBase(x[1]) + x[2]
    /\ \A x \in assigned : \A y \in assigned : x[3] = y[3] => x[1] = y[1]

\* ---------------------------------------------------------------------
\* C2: for a non-empty keyword list and readable Documents, the returned
\* mapping holds a keyword exactly when its lower-case form occurs in the
\* lower-case text of some page, and its value is the strictly ascending list
\* of the global numbers of exactly those pages.
MatchingPages(kw) ==
    UNION {{GlobalBase(n) + (q - 1) :
                q \in {r \in 1..Len(ArtifactOf(n).pages) :
                        \E a \in 0..Len(ArtifactOf(n).pages[r].text) :
                            /\ a + Len(kw) <= Len(ArtifactOf(n).pages[r].text)
                            /\ \A c \in 1..Len(kw) :
                                 lower_char(ArtifactOf(n).pages[r].text[a + c]) = lower_char(kw[c])}}
           : n \in {m \in 1..Len(chapters) : chapters[m].haspdf}}

StrictlyAscending(seq) == \A a \in 1..Len(seq) : \A b \in 1..Len(seq) : a < b => seq[a] < seq[b]

AllReadable == \A n \in 1..Len(chapters) : chapters[n].haspdf => Readable(n)

IndexReturned == pc \in {"generate_index", "master", "done"} /\ found_keywords.some

C2_KeywordIndexExact ==
    (IndexReturned /\ AllReadable) =>
        /\ keywords # <<>>
        /\ DOMAIN found_keywords.val =
                {keywords[k] : k \in {j \in 1..Len(keywords) : MatchingPages(keywords[j]) # {}}}
        /\ \A kw \in DOMAIN found_keywords.val :
                /\ StrictlyAscending(found_keywords.val[kw])
                /\ {found_keywords.val[kw][k] : k \in 1..Len(found_keywords.val[kw])}
                        = MatchingPages(kw)

\* a returned index over two readable Documents in which one keyword is kept
\* with pages of both Documents and another keyword is dropped
C2_Witness ==
    /\ IndexReturned /\ AllReadable
    /\ Len(chapters) = 2
    /\ \A n \in 1..2 : chapters[n].haspdf
    /\ \E kw \in DOMAIN found_keywords.val :
            /\ Len(found_keywords.val[kw]) >= 2
            /\ found_keywords.val[kw][1] < GlobalBase(2)
            /\ found_keywords.val[kw][Len(found_keywords.val[kw])] >= GlobalBase(2)
    /\ \E k \in 1..Len(keywords) : keywords[k] \notin DOMAIN found_keywords.val
    /\ \E k \in 1..Len(keywords) : \E kw \in DOMAIN found_keywords.val :
            keywords[k] = kw /\ lower(kw) # kw

\* ---------------------------------------------------------------------
\* C8: a page whose text extraction fails affects only itself: every other
\* page of the same Document and of later Documents is still scanned, and a
\* keyword on such a page is in the returned index.
C8_FailedPageOnlyItself ==
    IndexReturned =>
        \A n \in 1..Len(chapters) :
            (chapters[n].haspdf /\ ArtifactOf(n).readable) =>
                \A q \in 1..Len(ArtifactOf(n).pages) :
                    ArtifactOf(n).pages[q].extractable =>
                        /\ \E x \in assigned : x[1] = n /\ x[2] = q - 1
                        /\ \A k \in 1..Len(keywords) :
                                Contains(lower(ArtifactOf(n).pages[q].text), lower(keywords[k]))
                                    => keywords[k] \in DOMAIN found_keywords.val


(***************************************************************************)
(* Outline properties                                                      *)
(***************************************************************************)

\* the items of an outline in discovery order (depth first, nested lists in place)
RECURSIVE Flatten(_)
Flatten(outline) ==
    IF outline = <<>> THEN <<>>
    ELSE (IF Head(outline).kind = "list"
          THEN Flatten(Head(outline).kids)
          ELSE <<Head(outline)>>) \o Flatten(Tail(outline))

\* the title of an outline entry as the rules see it: commas stripped, trimmed
CleanTitle(item) == strip(replace(item.title, ",", " "))

\* rule 1 or rule 2 applies: the entry gives a chapter title and no node
GivesChapterTitle(item) ==
    \/ ChapterReEnd(CleanTitle(item)) # -1
    \/ BareReEnd(CleanTitle(item)) # -1

\* what is left of the title after its chapter prefix
ChapterTitleOf(item) ==
    IF ChapterReEnd(CleanTitle(item)) # -1
    THEN ChapterStrip(CleanTitle(item))
    ELSE BareStrip(CleanTitle(item))

\* the leading numeric token X.Y or X.Y.Z of a title that has one: the
\* number of its characters, trailing dot not counted
NumericTokenLen(title) ==
    LET p == TwoPartEnd(title)
        g == GroupEnd(title, p)
    IN  IF g # -1 /\ TailMatches(title, g) THEN g - 1 ELSE p - 1

DotsInNumericToken(title) ==
    Cardinality({k \in 1..NumericTokenLen(title) : title[k] = "."})

\* rule 3 applies: the entry is a section or subsection heading
GivesNode(item) == ~GivesChapterTitle(item) /\ SectionReMatches(CleanTitle(item))

\* the entries of chapter n's outline that give a node, in discovery order
NodeItems(n) == SelectSeq(Flatten(ArtifactOf(n).outline), GivesNode)

\* chapters whose outline was walked to the end by get_pdf_bookmarks
Walked(n) == n \in DOMAIN norm /\ ~norm[n].raised

\* ---------------------------------------------------------------------
\* C3: only the first outline entry that matches a chapter-title pattern
\* determines the chapter title recovered from the outline; later matching
\* entries leave it unchanged.
C3_FirstChapterTitleKept ==
    \A n \in 1..Len(chapters) :
        Walked(n) =>
            LET items == Flatten(ArtifactOf(n).outline)
                hits  == {k \in 1..Len(items) : GivesChapterTitle(items[k])}
                first == items[CHOOSE k \in hits : \A j \in hits : k <= j]
            IN  (hits # {} /\ ChapterTitleOf(first) # <<>>) =>
                    norm[n].walk = Some(ChapterTitleOf(first))

\* ---------------------------------------------------------------------
\* C5: an entry not consumed by the chapter rules gives a node exactly when
\* its title starts with a numeric token X.Y or X.Y.Z followed by whitespace
\* or the end; the node is a section of depth 1 when that token holds one
\* dot and a subsection of depth 2 when it holds two, whatever dots the rest
\* of the title holds; other titles give nothing.
C5_DepthFromNumericToken ==
    \A n \in 1..Len(chapters) :
        Walked(n) =>
            /\ Len(norm[n].bookmarks) = Len(NodeItems(n))
            /\ \A k \in 1..Len(norm[n].bookmarks) :
                 LET dots == DotsInNumericToken(CleanTitle(NodeItems(n)[k]))
                 IN  /\ norm[n].bookmarks[k].depth = dots
                     /\ norm[n].bookmarks[k].level =
                            (IF dots = 1 THEN "section" ELSE "subsection")

\* ---------------------------------------------------------------------
\* C7: when reading the outline or the page text of a Document fails, at
\* whatever point, the result for that Document is no chapter title and no
\* section nodes.
ReadFailed(n) ==
    \/ norm[n].raised
    \/ norm[n].fallback /\ ~ArtifactOf(n).pages[1].extractable

C7_ErrorGivesEmptyResult ==
    \A n \in 1..Len(chapters) :
        (n \in DOMAIN norm /\ ReadFailed(n)) =>
            /\ norm[n].bookmarks = <<>>
            /\ ~Truthy(norm[n].title)

\* ---------------------------------------------------------------------
\* C10: after an outline walk that ended without error, the first-page
\* fallback runs exactly when the walk recovered no chapter title; it looks
\* at the first five lines of the first page only, the first line that matches
\* the chapter pattern gives the title, and when none does the title stays
\* absent and the chapter directive is titled with the formatted file name.
FirstPageLines(n) ==
    IF ArtifactOf(n).pages[1].extractable
    THEN splitlines(ArtifactOf(n).pages[1].text)
    ELSE <<>>

MatchingLines(n) ==
    {k \in 1..Len(FirstPageLines(n)) : k <= 5 /\ ChapterReEnd(strip(FirstPageLines(n)[k])) # -1}

FirstMatchingLine(n) ==
    strip(FirstPageLines(n)[CHOOSE k \in MatchingLines(n) : \A j \in MatchingLines(n) : k <= j])

ChapterDirective(n) ==
    LET k == CHOOSE j \in 1..Len(latex_content) : latex_content[j].file = n
    IN  latex_content[k].addtotoc[1]

RECURSIVE DirectivesFrom(_)
DirectivesFrom(k) ==
    IF k > Len(latex_content) THEN <<>>
    ELSE [j \in 1..Len(latex_content[k].addtotoc) |->
            [inc |-> k, pos |-> j, file |-> latex_content[k].file,
             d |-> latex_content[k].addtotoc[j]]]
         \o DirectivesFrom(k + 1)

Directives == DirectivesFrom(1)

MasterLoop == pc \in {"master", "done"}

\* the chapters create_master_latex has dealt with
Assembled == IF pc = "done" THEN 1..Len(chapters) ELSE IF pc = "master" THEN 1..(i - 1) ELSE {}

\* ---------------------------------------------------------------------
\* C4: the directives are in Document-then-discovery order: the included
\* Documents appear in merge order, each with its one chapter directive
\* first and then its section and subsection directives in the order the
\* outline walk discovers them, whatever their page numbers; the Index
\* directive, when there is an index artifact, is the last one.
C4_DocumentThenDiscoveryOrder ==
    MasterLoop =>
        /\ \A a \in 1..Len(Directives) : \A b \in 1..Len(Directives) :
                (a < b /\ Directives[b].file # 0) =>
                    /\ Directives[a].file # 0
                    /\ Directives[a].file <= Directives[b].file
        /\ {latex_content[k].file : k \in 1..Len(latex_content)} \ {0}
                = {n \in Assembled : chapters[n].haspdf}
        /\ \A k \in 1..Len(latex_content) :
             LET inc == latex_content[k]
                 n   == inc.file
             IN  /\ \A j \in 1..Len(latex_content) : latex_content[j].file = n => j = k
                 /\ inc.addtotoc # <<>>
                 /\ inc.addtotoc[1].level = "chapter"
                 /\ \A j \in 2..Len(inc.addtotoc) : inc.addtotoc[j].level # "chapter"
                 /\ n # 0 =>
                      /\ Len(inc.addtotoc) - 1 <= Len(NodeItems(n))
                      /\ Walked(n) => Len(inc.addtotoc) - 1 = Len(NodeItems(n))
                      /\ \A j \in 2..Len(inc.addtotoc) :
                            /\ inc.addtotoc[j].title = SectionStrip(CleanTitle(NodeItems(n)[j - 1]))
                            /\ inc.addtotoc[j].page = NodeItems(n)[j - 1].dest + 1
        /\ pc = "done" =>
             (index_pdf <=>
                /\ latex_content # <<>>
                /\ latex_content[Len(latex_content)].file = 0
                /\ Directives[Len(Directives)].d.title = <<"I", "n", "d", "e", "x">>
                /\ Directives[Len(Directives)].d.level = "chapter")

\* a finished master document of two Documents, the first with sections
\* whose pages decrease, followed by the index
C4_Witness ==
    /\ pc = "done"
    /\ index_pdf
    /\ Len(latex_content) = 3
    /\ Len(latex_content[1].addtotoc) = 3
    /\ latex_content[1].addtotoc[2].page > latex_content[1].addtotoc[3].page
    /\ Len(latex_content[2].addtotoc) >= 2
    /\ latex_content[3].file = 0

\* ---------------------------------------------------------------------
\* C6: within one run the labels of all directives (chapter, section,
\* subsection and Index directives of all Documents) are pairwise distinct.
C6_LabelsDistinct ==
    \A a \in 1..Len(Directives) : \A b \in 1..Len(Directives) :
        a # b => Directives[a].d.label # Directives[b].d.label

\* ---------------------------------------------------------------------
\* C9 as claimed: every directive carries a global page number, the chapter
\* directive of a Document 1 plus the page counts of the Documents before
\* it, a section or subsection directive its local page moved by the same
\* offset.
RECURSIVE IncludedPagesBefore(_)
IncludedPagesBefore(n) ==
    IF n <= 1 THEN 0
    ELSE IncludedPagesBefore(n - 1)
         + (IF chapters[n - 1].haspdf THEN Len(ArtifactOf(n - 1).pages) ELSE 0)

C9_DirectivesCarryGlobalPages ==
    \A a \in 1..Len(Directives) :
        Directives[a].file # 0 =>
            Directives[a].d.page =
                IncludedPagesBefore(Directives[a].file) +
                (IF Directives[a].pos = 1 THEN 1
                 ELSE NodeItems(Directives[a].file)[Directives[a].pos - 1].dest + 1)

\* C9 as the code has it: every directive carries a page number local to its
\* own Document, counted from 1: the chapter directive carries page 1 and a
\* section or subsection directive carries the 0-indexed destination page of
\* its outline entry plus 1; nothing is added for the Documents before it.
C9_DirectivesCarryLocalPages ==
    \A a \in 1..Len(Directives) :
        /\ Directives[a].pos = 1 => Directives[a].d.page = 1
        /\ (Directives[a].file # 0 /\ Directives[a].pos > 1) =>
                Directives[a].d.page =
                    NodeItems(Directives[a].file)[Directives[a].pos - 1].dest + 1

\* the second of two included Documents has a chapter directive and a
\* section directive on its second page, after a first Document of two pages
C9_Witness ==
    /\ pc = "done"
    /\ Len(latex_content) >= 2
    /\ latex_content[1].file = 1
    /\ latex_content[2].file = 2
    /\ Len(ArtifactOf(1).pages) = 2
    /\ Len(latex_content[2].addtotoc) >= 2
    /\ latex_content[2].addtotoc[1].page = 1
    /\ latex_content[2].addtotoc[2].page = 2

(***************************************************************************)
(* Conversion properties                                                   *)
(***************************************************************************)

\* the conversion of chapter n raised an error: only the formats that go
\* through a converter can raise; a Document that is already a PDF is not
\* converted at all
ConversionFailed(n) ==
    /\ lower(chapters[n].original.suffix) # <<".", "p", "d", "f">>
    /\ ~chapters[n].original.converts

\* convert_to_pdf has returned for chapter n
ConversionDone(n) ==
    /\ n \in 1..Len(chapters)
    /\ \/ pc = "convert" /\ n < i
       \/ pc \in {"index", "generate_index", "master", "done"}

\* the keyword indexer has dealt with chapter n
IndexerPassed(n) ==
    /\ n \in 1..Len(chapters)
    /\ \/ pc = "index" /\ n < i
       \/ IndexReturned

\* the chapter directives of the master document that belong to chapter n
ChapterDirectivesOf(n) ==
    {a \in 1..Len(Directives) :
        Directives[a].file = n /\ Directives[a].d.level = "chapter"}

\* ---------------------------------------------------------------------
\* C11: after the conversion step every scanned Document whose conversion
\* raised no error has a page-bearing artifact attached, a Document that is
\* already a PDF included; consequently the keyword indexer scans the pages
\* of each such Document (of those it can read), the assembled TOC holds
\* exactly one chapter directive for it, and only the Documents whose
\* conversion failed are missing from the book.
C11_ConvertedDocumentsIncluded ==
    \A n \in 1..Len(chapters) :
        /\ (ConversionDone(n) /\ ~ConversionFailed(n)) => chapters[n].haspdf
        /\ (IndexerPassed(n) /\ ~ConversionFailed(n) /\ ArtifactOf(n).readable
                /\ \A q \in 1..Len(ArtifactOf(n).pages) : ArtifactOf(n).pages[q].extractable) =>
                \A q \in 1..Len(ArtifactOf(n).pages) :
                    \E x \in assigned : x[1] = n /\ x[2] = q - 1
        /\ pc = "done" =>
                Cardinality(ChapterDirectivesOf(n)) = (IF ConversionFailed(n) THEN 0 ELSE 1)

====
